---- MODULE Spec2Model ----
(***************************************************************************)
(* Model of pynbody.analysis.decomp.decomp: the kinematic decomposition    *)
(* of the star particles of a snapshot into thin disk (1), halo (2),       *)
(* bulge (3), thick disk (4) and pseudo bulge (5).                         *)
(*                                                                         *)
(* Also estimate_jcirc_from_energy, the second function of the module.     *)
(*                                                                         *)
(* Numbers.  The code computes in IEEE doubles.  A value of the model is a *)
(* record [k, n, d, u]: k = "fin" is the double u ulps above the double    *)
(* nearest to the rational n/d (lowest terms, d > 0), k = "inf" is +inf,   *)
(* k = "ninf" is -inf and k = "nan" is NaN.  Sums, differences and linear  *)
(* interpolation of the small integers the model draws are exact, and a    *)
(* quotient of two of them is correctly rounded: these have u = 0.  The    *)
(* logarithms and the power of line 153 are not exact: their result is the *)
(* exact value moved by a rounding error, tabulated in ulps for the        *)
(* operands of the model (LogRounding), and a quotient by such a result    *)
(* is rounded again (QuotRounding).                                        *)
(***************************************************************************)
EXTENDS Integers, Sequences, FiniteSets, TLC

(***************************************************************************)
(* Bounds of the model.                                                    *)
(***************************************************************************)
\* number of star particles of the snapshot (one more particle is not a star)
NStars == 2

(***************************************************************************)
(* Program constants.                                                      *)
(***************************************************************************)
\* particles_per_bin=500, the default of decomp
DefaultParticlesPerBin == 500
\* the upper end of the bisection interval, util.bisect(0., 5.0, ...)
BisectHi == 5

(***************************************************************************)
(* Arithmetic on the values.                                               *)
(***************************************************************************)
Abs(x) == IF x < 0 THEN -x ELSE x

RECURSIVE Gcd(_, _)
Gcd(a, b) == IF b = 0 THEN a ELSE Gcd(b, a % b)

\* the double nearest to the rational n/d (d # 0)
Fin(n, d) ==
    LET g == Gcd(Abs(n), Abs(d))
        s == IF d < 0 THEN -1 ELSE 1
    IN  [k |-> "fin", n |-> (s * n) \div g, d |-> (s * d) \div g, u |-> 0]

\* the double u ulps above the finite double v
Ulps(v, u) == [v EXCEPT !.u = v.u + u]

PosInf == [k |-> "inf", n |-> 1, d |-> 0, u |-> 0]
NegInf == [k |-> "ninf", n |-> -1, d |-> 0, u |-> 0]
NaN == [k |-> "nan", n |-> 0, d |-> 0, u |-> 0]
Int2V(i) == Fin(i, 1)

\* a < b as numpy compares doubles: every comparison with NaN is False.  Two
\* finite values near the same rational are ordered by their ulps.
Lt(a, b) ==
    CASE a.k = "nan" \/ b.k = "nan" -> FALSE
      [] a.k = "inf" \/ b.k = "ninf" -> FALSE
      [] a.k = "ninf" \/ b.k = "inf" -> TRUE
      [] OTHER -> \/ a.n * b.d < b.n * a.d
                  \/ a.n * b.d = b.n * a.d /\ a.u < b.u

Gt(a, b) == Lt(b, a)

\* a <= b
Le(a, b) ==
    CASE a.k = "nan" \/ b.k = "nan" -> FALSE
      [] a.k = "ninf" \/ b.k = "inf" -> TRUE
      [] a.k = "inf" \/ b.k = "ninf" -> FALSE
      [] OTHER -> \/ a.n * b.d < b.n * a.d
                  \/ a.n * b.d = b.n * a.d /\ a.u <= b.u

\* The rounding error, in ulps, of jz / jc in doubles where jc is not the double
\* nearest to a rational of the model: <<jz, n, d, u, r>> says that jz divided
\* by the double u ulps above n/d is the double r ulps above the double nearest
\* to jz * d / n.
QuotRounding ==
    { <<-5, 5, 1, 1, 2>>,  <<-5, 10, 1, 3, 5>>,  <<-5, 20, 1, 1, 2>>,  <<-5, 40, 1, 2, 3>>,
      <<-5, 80, 1, -1, -1>>,  <<-5, 160, 1, -3, -2>>,  <<-5, 320, 1, -2, -2>>,  <<3, 5, 1, 1, -1>>,
      <<3, 10, 1, 3, -3>>,  <<3, 20, 1, 1, -1>>,  <<3, 40, 1, 2, -2>>,  <<3, 80, 1, -1, 1>>,
      <<3, 160, 1, -3, 3>>,  <<3, 320, 1, -2, 2>>,  <<7, 5, 1, 1, -1>>,  <<7, 10, 1, 3, -3>>,
      <<7, 20, 1, 1, -1>>,  <<7, 40, 1, 2, -2>>,  <<7, 80, 1, -1, 2>>,  <<7, 160, 1, -3, 4>>,
      <<7, 320, 1, -2, 3>>,  <<40, 5, 1, 1, -2>>,  <<40, 10, 1, 3, -5>>,  <<40, 20, 1, 1, -2>>,
      <<40, 40, 1, 2, -3>>,  <<40, 80, 1, -1, 1>>,  <<40, 160, 1, -3, 2>>,  <<40, 320, 1, -2, 2>>,
      <<54, 5, 1, 1, -1>>,  <<54, 10, 1, 3, -4>>,  <<54, 20, 1, 1, -1>>,  <<54, 40, 1, 2, -3>>,
      <<54, 80, 1, -1, 1>>,  <<54, 160, 1, -3, 3>>,  <<54, 320, 1, -2, 2>>,  <<64, 5, 1, 1, -2>>,
      <<64, 10, 1, 3, -4>>,  <<64, 20, 1, 1, -2>>,  <<64, 40, 1, 2, -3>>,  <<64, 80, 1, -1, 1>>,
      <<64, 160, 1, -3, 3>>,  <<64, 320, 1, -2, 2>> }

\* jz / jc for a finite integer jz: x/inf = 0, x/0 = +inf, -inf or NaN (0/0),
\* x/NaN = NaN
Quot(jz, jc) ==
    CASE jc.k = "nan" -> NaN
      [] jc.k \in {"inf", "ninf"} -> Fin(0, 1)
      [] jc.n = 0 -> IF jz > 0 THEN PosInf ELSE IF jz < 0 THEN NegInf ELSE NaN
      [] jc.u = 0 -> Fin(jz * jc.d, jc.n)
      [] OTHER ->
          LET t == CHOOSE t \in QuotRounding :
                      t[1] = jz /\ t[2] = jc.n /\ t[3] = jc.d /\ t[4] = jc.u
          IN  Ulps(Fin(jz * jc.d, jc.n), t[5])

SeqMax(s) == CHOOSE x \in {s[i] : i \in DOMAIN s} : \A i \in DOMAIN s : s[i] <= x
SeqMin(s) == CHOOSE x \in {s[i] : i \in DOMAIN s} : \A i \in DOMAIN s : x <= s[i]

RECURSIVE Pow(_, _)
Pow(b, e) == IF e = 0 THEN 1 ELSE b * Pow(b, e - 1)

(***************************************************************************)
(* The snapshot.  Particles 1..NStars are the star family (h.star), the    *)
(* last particle belongs to another family.  A particle is a record of     *)
(* the quantities the module reads: kinetic energy ke, potential phi (in   *)
(* the unit of ke), z angular momentum jz, in-plane rotational velocity    *)
(* vcxy and radial bin rbin, ke/jz/vcxy in the disk-aligned frame and, as  *)
(* ke0/jz0/vcxy0, in the frame the snapshot is loaded in, and the squared  *)
(* angular momentum j2 in the frame the snapshot is loaded in.             *)
(***************************************************************************)
NP == NStars + 1
P == 1 .. NP
Stars == 1 .. NStars

StarKinds ==
    { [ke |-> 2, ke0 |-> 2, phi |-> -3,   jz |-> 3,  jz0 |-> 3,  vcxy |-> 1,  vcxy0 |-> 1,
       rbin |-> 3, j2 |-> 25],
      [ke |-> 1, ke0 |-> 2, phi |-> -4,   jz |-> 54, jz0 |-> 64, vcxy |-> 2,  vcxy0 |-> 1,
       rbin |-> 2, j2 |-> 6400],
      [ke |-> 1, ke0 |-> 1, phi |-> -3,   jz |-> 40, jz0 |-> 40, vcxy |-> 3,  vcxy0 |-> 3,
       rbin |-> 3, j2 |-> 2500],
      [ke |-> 1, ke0 |-> 1, phi |-> -102, jz |-> -5, jz0 |-> -5, vcxy |-> -1, vcxy0 |-> -1,
       rbin |-> 1, j2 |-> 169] }

OtherKinds ==
    { [ke |-> 3, ke0 |-> 3, phi |-> -3,   jz |-> 7,  jz0 |-> 7,  vcxy |-> 1,  vcxy0 |-> 1,
       rbin |-> 3, j2 |-> 625],
      [ke |-> 1, ke0 |-> 1, phi |-> -131, jz |-> -5, jz0 |-> -5, vcxy |-> -2, vcxy0 |-> -2,
       rbin |-> 1, j2 |-> 25] }

\* The snapshots of the model: the least bound star has the energy ke + phi = -1
\* in both frames and lies above the rotation curve, whose circular energies
\* are -2 and below (ProfileOf), so every circular energy is negative after the
\* shift by te_max.
TopEnergy == -1
Snapshots ==
    {f \in [P -> StarKinds \cup OtherKinds] :
        /\ \A s \in Stars : f[s] \in StarKinds
        /\ f[NP] \in OtherKinds
        /\ \E s \in Stars : f[s].ke + f[s].phi = TopEnergy /\ f[s].ke0 + f[s].phi = TopEnergy}

\* The rotation-curve profile of the snapshot (profile.Profile is a collaborator):
\* per bin the potential phi, the circular kinetic energy v_circ^2/2 and the
\* circular angular momentum j_circ.  "rising" is ordered in energy as in radius,
\* "dip" has its lowest circular energy in the second bin.
ProfileShapes == {"rising", "dip"}

ProfileOf(shape, nbins) ==
    LET E(i) == -1 - Pow(4, nbins - i)
        Edip(i) == IF i = 1 /\ nbins >= 2 THEN E(2) ELSE IF i = 2 THEN E(1) ELSE E(i)
    IN  [phi    |-> [i \in 1 .. nbins |-> (IF shape = "dip" THEN Edip(i) ELSE E(i)) - 1],
         halfv2 |-> [i \in 1 .. nbins |-> 1],
         j_circ |-> [i \in 1 .. nbins |-> Fin(5 * Pow(4, i - 1), 1)]]

\* unit of phi as stored: numeric value = physical value * UnitsPerKe[unit];
\* "bad" is a unit that has no conversion into the unit of ke
Units == {"ke", "other", "bad"}
UnitsPerKe(u) == IF u = "other" THEN 2 ELSE 1

(***************************************************************************)
(* Derived arrays of the snapshot in the current frame.  frame is the      *)
(* sequence of the transformations applied to the snapshot and not yet     *)
(* reverted; the snapshot is disk-aligned while "faceon" is applied.       *)
(***************************************************************************)
FaceOn(frame) == \E i \in DOMAIN frame : frame[i] = "faceon"
KeArray(sim, frame) ==
    [p \in P |-> IF FaceOn(frame) THEN sim.part[p].ke ELSE sim.part[p].ke0]
JzArray(sim, frame) ==
    [p \in P |-> IF FaceOn(frame) THEN sim.part[p].jz ELSE sim.part[p].jz0]
VcxyArray(sim, frame) ==
    [p \in P |-> IF FaceOn(frame) THEN sim.part[p].vcxy ELSE sim.part[p].vcxy0]

\* h[name] = arr: the array is created when absent and its contents copied in
SetArray(h, name, arr) ==
    [n \in DOMAIN h \cup {name} |-> IF n = name THEN arr ELSE h[n]]

(***************************************************************************)
(* Energy field, lines 109-126.                                            *)
(***************************************************************************)
\* h['phi'].convert_units(ke.units): the stored numbers are rescaled in place
ConvertUnits(phi, u) == [p \in P |-> phi[p] \div UnitsPerKe(u)]

\* a conversion that rescales the numbers and leaves the unit of the array as it was
UnitKept(u) == u
\* the unit h['phi'] is in after h['phi'].convert_units(ke.units)
UnitAfterConvert(u) == "ke"

\* the numbers pe holds when ke + pe is formed: pe is h['phi'], already converted
Pe(phi, u) == ConvertUnits(phi, u)

\* te = ke + pe
TeRaw(ke, pe) == [p \in P |-> ke[p] + pe[p]]

\* te_max = h.star['te'].max()
TeMax(te) == SeqMax([s \in Stars |-> te[s]])

\* the array stored as h['te'] after h['te'] = te; te -= te_max; h['te'] -= te_max:
\* h['te'] holds a copy of te, so only the last statement shifts it
TeStoredTwice(te, te_max) == [p \in P |-> (te[p] - te_max) - te_max]
TeStored(te, te_max) == [p \in P |-> te[p] - te_max]

(***************************************************************************)
(* Profile, lines 133-140.                                                 *)
(***************************************************************************)
\* nbins = len(d) // particles_per_bin; every particle of the model lies in the disc
NBins(particles_per_bin) == NP \div particles_per_bin

\* pro_phi -= te_max
ShiftProfile(prof, te_max) ==
    [prof EXCEPT !.phi = [i \in DOMAIN prof.phi |-> prof.phi[i] - te_max]]

\* pro_d['E_circ']: v_circ^2/2 + phi per bin, so the shift of phi shows in it
ECirc(pro) == [i \in DOMAIN pro.phi |-> pro.halfv2[i] + pro.phi[i]]

(***************************************************************************)
(* Circular reference, lines 145-170.                                      *)
(***************************************************************************)
\* linear interpolation through (xlo, ylo), (xhi, yhi) at x
Line(xlo, ylo, xhi, yhi, x) ==
    Fin(ylo.n * yhi.d * (xhi - xlo) + (yhi.n * ylo.d - ylo.n * yhi.d) * (x - xlo),
        ylo.d * yhi.d * (xhi - xlo))

\* the bins bracketing x among the nodes xs (distinct, at least two), as
\* scipy.interpolate.interp1d picks them: hi is the first node >= x in
\* ascending order, but never the lowest node; lo is the node before hi
HiNode(xs, x) ==
    LET cand == {i \in DOMAIN xs : xs[i] >= x /\ xs[i] # SeqMin(xs)}
    IN  CHOOSE i \in cand : \A j \in cand : xs[i] <= xs[j]
LoNode(xs, x) ==
    LET hi == HiNode(xs, x)
        below == {i \in DOMAIN xs : xs[i] < xs[hi]}
    IN  CHOOSE i \in below : \A j \in below : xs[j] <= xs[i]

\* interp1d(xs, ys, bounds_error=False)(x): NaN outside the range of xs
Interp1d(xs, ys, x) ==
    IF x < SeqMin(xs) \/ x > SeqMax(xs) THEN NaN
    ELSE Line(xs[LoNode(xs, x)], ys[LoNode(xs, x)], xs[HiNode(xs, x)], ys[HiNode(xs, x)], x)

\* the exponent e of a/b = 2^e, for positive integers a, b whose ratio is a
\* power of two
RECURSIVE Log2Int(_)
Log2Int(a) == IF a <= 1 THEN 0 ELSE 1 + Log2Int(a \div 2)
Log2Ratio(a, b) == IF a % b = 0 THEN Log2Int(a \div b) ELSE -Log2Int(b \div a)

\* y * 2^e for a value y
Scale2(y, e) == IF e >= 0 THEN Fin(y.n * Pow(2, e), y.d) ELSE Fin(y.n, y.d * Pow(2, -e))

\* np.log10(-pro_d['E_circ']): the nodes of the interpolant are the logarithms
\* of these
LogNodes(es) == [i \in DOMAIN es |-> -es[i]]

\* The rounding error, in ulps, of line 153 in doubles,
\*   10 ** (slope * (log10(x) - log10(xlo)) + log10(jlo)),
\*   slope = (log10(jhi) - log10(jlo)) / (log10(xhi) - log10(xlo)),
\* and 10 ** log10(jlo) at x = xlo, 10 ** log10(jhi) at x = xhi:
\* <<xlo, xhi, jlo, jhi, x, u>> says that the result is the double u ulps above
\* the exact value of the interpolant.
LogRounding ==
    { <<1, 4, 80, 5, 1, -1>>,  <<1, 4, 80, 5, 2, 1>>,  <<1, 4, 80, 5, 4, 1>>,
      <<1, 4, 80, 20, 1, -1>>,  <<1, 4, 80, 20, 2, 2>>,  <<1, 4, 80, 20, 4, 1>>,
      <<1, 4, 320, 80, 1, -2>>,  <<1, 4, 320, 80, 2, -3>>,  <<1, 4, 320, 80, 4, -1>>,
      <<4, 16, 5, 20, 8, 0>>,  <<4, 16, 5, 20, 16, 1>>,  <<4, 16, 20, 5, 8, 0>>,
      <<4, 16, 20, 5, 16, 1>>,  <<4, 16, 80, 5, 8, 1>>,  <<4, 16, 80, 5, 16, 1>>,
      <<4, 16, 80, 20, 8, 2>>,  <<4, 16, 80, 20, 16, 1>>,  <<16, 64, 5, 20, 32, 3>>,
      <<16, 64, 5, 20, 64, 1>>,  <<16, 64, 20, 5, 32, 0>>,  <<16, 64, 20, 5, 64, 1>> }

\* 10 ** interp1d(log10(-E)[::-1], log10(j)[::-1], bounds_error=False)(log10(-te))
\* for negative circular energies es.  log10(-te) is -inf or NaN for te >= 0
\* and the interpolant gives NaN there, as outside the nodes.  Between two
\* nodes, interpolating log j linearly in log(-E) gives
\* j_lo * (j_hi/j_lo)^t with t = log(te/E_lo) / log(E_hi/E_lo): on the
\* operands of the model te/E_lo, E_hi/E_lo and j_hi/j_lo are powers of two,
\* the exact value is j_lo * 2^e, and the doubles give it up to LogRounding.
LogInterp(es, js, te) ==
    IF te >= 0 THEN NaN
    ELSE IF -te < SeqMin(LogNodes(es)) \/ -te > SeqMax(LogNodes(es)) THEN NaN
    ELSE LET xs == LogNodes(es)
             lo == LoNode(xs, -te)
             hi == HiNode(xs, -te)
             m == Log2Ratio(js[hi].n * js[lo].d, js[lo].n * js[hi].d)
             e == (Log2Ratio(-te, xs[lo]) * m) \div Log2Ratio(xs[hi], xs[lo])
             t == CHOOSE t \in LogRounding :
                     /\ t[1] = xs[lo] /\ t[2] = xs[hi]
                     /\ t[3] = js[lo].n /\ t[4] = js[hi].n /\ t[5] = -te
         IN  Ulps(Scale2(js[lo], e), t[6])

\* j_from_E(h['te']) of the chosen variant
JFromE(pro, te, log_interp) ==
    [p \in P |-> IF log_interp THEN LogInterp(ECirc(pro), pro.j_circ, te[p])
                 ELSE Interp1d(ECirc(pro), pro.j_circ, te[p])]

\* h['j_circ'][np.where(h['te'] > pro_d['E_circ'].max())] = np.inf
ClampHigh(jc, pro, te) ==
    [p \in P |-> IF te[p] > SeqMax(ECirc(pro)) THEN PosInf ELSE jc[p]]

\* h['j_circ'][np.where(h['te'] < pro_d['E_circ'].min())] = pro_d['j_circ'][0]
ClampLowNearest(jc, pro, te) ==
    [p \in P |-> IF te[p] < SeqMin(ECirc(pro))
                 THEN pro.j_circ[CHOOSE i \in DOMAIN pro.phi : ECirc(pro)[i] = SeqMin(ECirc(pro))]
                 ELSE jc[p]]
ClampLow(jc, pro, te) ==
    [p \in P |-> IF te[p] < SeqMin(ECirc(pro)) THEN pro.j_circ[1] ELSE jc[p]]

\* pro_d.create_particle_array(name, target_simulation=h): every particle gets
\* the value of its radial bin
MapBack(binned, sim) == [p \in P |-> binned[sim.part[p].rbin]]

\* h['jz_by_jzcirc'] = h['j'][:, 2] / h['j_circ']
JzByJzcirc(jz, jc) == [p \in P |-> Quot(jz[p], jc[p])]

(***************************************************************************)
(* Classification, lines 173-217.                                          *)
(***************************************************************************)
\* h_star._create_array('decomp', dtype=int): zeros
NewDecomp == [s \in Stars |-> 0]

\* disk = np.where((ratio > j_disk_min) * (ratio < j_disk_max))
Disk(ratio, j_disk_min, j_disk_max) ==
    {s \in Stars : Gt(ratio[s], j_disk_min) /\ Lt(ratio[s], j_disk_max)}

\* if j_crit > j_disk_min: j_crit = j_disk_min
ClampJCritNone(j_crit, j_disk_min) == j_crit
ClampJCrit(j_crit, j_disk_min) == IF Gt(j_crit, j_disk_min) THEN j_disk_min ELSE j_crit

\* np.median(h_star['te'])
Median(te) ==
    LET RECURSIVE Sorted(_)
        Sorted(S) == IF S = {} THEN <<>>
                     ELSE LET m == CHOOSE s \in S : \A t \in S : te[s] <= te[t]
                          IN  <<te[m]>> \o Sorted(S \ {m})
        srt == Sorted(Stars)
        n == Len(srt)
    IN  IF n % 2 = 1 THEN Fin(srt[(n + 1) \div 2], 1)
        ELSE Fin(srt[n \div 2] + srt[n \div 2 + 1], 2)

NoneV == [k |-> "none", n |-> 0, d |-> 0, u |-> 0]

\* if E_cut is None: E_cut = np.median(h_star['te'])
ECut(E_cut, te) == IF E_cut.k = "none" THEN Median(te) ELSE E_cut

\* the four index sets of lines 207-212
Halo(te, ratio, E_cut, j_crit) ==
    {s \in Stars : Gt(Int2V(te[s]), E_cut) /\ Lt(ratio[s], j_crit)}
Bulge(te, ratio, E_cut, j_crit) ==
    {s \in Stars : Le(Int2V(te[s]), E_cut) /\ Lt(ratio[s], j_crit)}
Pbulge(te, ratio, E_cut, j_crit, j_disk_min, j_disk_max) ==
    {s \in Stars : /\ Le(Int2V(te[s]), E_cut) /\ Gt(ratio[s], j_crit)
                   /\ (Lt(ratio[s], j_disk_min) \/ Gt(ratio[s], j_disk_max))}
ThickAnyRatio(te, ratio, E_cut, j_crit, j_disk_min, j_disk_max) ==
    {s \in Stars : Gt(Int2V(te[s]), E_cut) /\ Gt(ratio[s], j_crit)}
Thick(te, ratio, E_cut, j_crit, j_disk_min, j_disk_max) ==
    {s \in Stars : /\ Gt(Int2V(te[s]), E_cut) /\ Gt(ratio[s], j_crit)
                   /\ (Lt(ratio[s], j_disk_min) \/ Gt(ratio[s], j_disk_max))}

\* h_star['decomp', idx] = label
Assign(decomp, idx, label) == [s \in Stars |-> IF s \in idx THEN label ELSE decomp[s]]

\* lines 214-217, in the order of the code
SecondPass(decomp, te, ratio, E_cut, j_crit, j_disk_min, j_disk_max) ==
    Assign(Assign(Assign(Assign(decomp,
        Halo(te, ratio, E_cut, j_crit), 2),
        Bulge(te, ratio, E_cut, j_crit), 3),
        Thick(te, ratio, E_cut, j_crit, j_disk_min, j_disk_max), 4),
        Pbulge(te, ratio, E_cut, j_crit, j_disk_min, j_disk_max), 5)

(***************************************************************************)
(* The arguments of a call, and the values the model draws them from.      *)
(***************************************************************************)
JDiskBands ==
    { <<Fin(4, 5), Fin(11, 10)>>,     \* the defaults j_disk_min=0.8, j_disk_max=1.1
      <<Fin(0, 1), Fin(11, 10)>>,
      <<Fin(-1, 2), Fin(11, 10)>> }
ECuts == {NoneV, Fin(-2, 1)}
ParticlesPerBin == {1, DefaultParticlesPerBin}

Args ==
    { [aligned |-> al, j_disk_min |-> band[1], j_disk_max |-> band[2], E_cut |-> ec,
       j_circ_from_r |-> fr, log_interp |-> lg, particles_per_bin |-> ppb] :
         al \in BOOLEAN, band \in JDiskBands, ec \in ECuts,
         fr \in BOOLEAN, lg \in BOOLEAN, ppb \in ParticlesPerBin }

\* the arguments the model draws for a call on a snapshot decomp has run on before
RerunArgs ==
    {a \in Args : /\ a.aligned /\ a.particles_per_bin = 1 /\ a.E_cut = NoneV
                  /\ a.j_disk_min = Fin(4, 5) /\ ~a.log_interp}

\* the values util.bisect(0., 5.0, f) returns in the model: points of [0, 5]
BisectRoots == {Fin(1, 4), Fin(1, 2), Fin(4, 5), Fin(BisectHi, 1)}

(***************************************************************************)
(* State.                                                                  *)
(***************************************************************************)
VARIABLES
    sim,        \* the particles and the rotation curve of the snapshot
    h,          \* the arrays stored in the snapshot, by name
    phi_units,  \* the unit h['phi'] is stored in
    frame,      \* transformations applied to the snapshot and not reverted
    pc,         \* "idle", a step of a running call, "done" or "raised"
    args,       \* the arguments of the current (or last) call
    te,         \* the local array te of decomp
    te_max,     \* the local te_max
    pro_d,      \* the local pro_d
    root,       \* what util.bisect returned
    j_crit,     \* the local j_crit
    E_cut,      \* the local E_cut
    warnings,   \* what the call logged with logger.warning
    err,        \* the exception the call is raising, or "none"
    entry,      \* the snapshot and the results of the call before, at entry
    memo,       \* the last evaluation of util.bisect: its inputs and its result
    est         \* how estimate_jcirc_from_energy, called since decomp was, ended

vars == <<sim, h, phi_units, frame, pc, args, te, te_max, pro_d, root, j_crit, E_cut,
          warnings, err, entry, memo, est>>

NoProfile == [phi |-> <<>>, halfv2 |-> <<>>, j_circ |-> <<>>]
ZeroArray == [p \in P |-> 0]
NoMemo == [set |-> FALSE, ratio |-> [s \in Stars |-> NaN], V |-> [s \in Stars |-> 0],
           root |-> NaN]
DefaultArgs ==
    [aligned |-> FALSE, j_disk_min |-> Fin(4, 5), j_disk_max |-> Fin(11, 10),
     E_cut |-> NoneV, j_circ_from_r |-> FALSE, log_interp |-> FALSE,
     particles_per_bin |-> DefaultParticlesPerBin]

Init ==
    /\ sim \in [part : Snapshots, shape : ProfileShapes]
    /\ phi_units \in Units
    /\ h = [n \in {"phi"} |-> [p \in P |-> sim.part[p].phi * UnitsPerKe(phi_units)]]
    /\ frame = <<>>
    /\ pc = "idle"
    /\ args = DefaultArgs
    /\ te = ZeroArray
    /\ te_max = 0
    /\ pro_d = NoProfile
    /\ root = NaN
    /\ j_crit = NaN
    /\ E_cut = NoneV
    /\ warnings = <<>>
    /\ err = "none"
    /\ entry = [h |-> h, phi_units |-> phi_units, frame |-> frame, pc |-> "idle",
                args |-> DefaultArgs, j_crit |-> NaN, E_cut |-> NoneV]
    /\ memo = NoMemo
    /\ est = "none"

(***************************************************************************)
(* The steps of decomp.                                                    *)
(***************************************************************************)
\* the frame inside the with block: angmom.faceon(h) has transformed the
\* snapshot, transformation.NullTransformation(h) has not
Enter(fr, aligned) == IF aligned THEN fr ELSE Append(fr, "faceon")

\* tx.__exit__: the transformation is reverted
Leave(fr, aligned) == IF aligned THEN fr ELSE SubSeq(fr, 1, Len(fr) - 1)

\* decomp(h, ...) is called: lines 102-107
Call(a) ==
    /\ pc \in {"idle", "done", "raised"}
    /\ a \in (IF pc = "idle" THEN Args ELSE RerunArgs \cup {args})
    /\ args' = a
    /\ entry' = [h |-> h, phi_units |-> phi_units, frame |-> frame, pc |-> pc,
                 args |-> args, j_crit |-> j_crit, E_cut |-> E_cut]
    /\ frame' = Enter(frame, a.aligned)
    /\ pc' = "energy"
    /\ te' = ZeroArray
    /\ te_max' = 0
    /\ pro_d' = NoProfile
    /\ root' = NaN
    /\ j_crit' = NaN
    /\ E_cut' = a.E_cut
    /\ warnings' = <<>>
    /\ err' = "none"
    /\ est' = "none"
    /\ UNCHANGED <<sim, h, phi_units, memo>>

\* lines 109-126
EnergyStep ==
    /\ pc = "energy"
    /\ IF phi_units = "bad"
       THEN /\ err' = "UnitsException"
            /\ pc' = "exit"
            /\ UNCHANGED <<h, phi_units, te, te_max>>
       ELSE LET ke == KeArray(sim, frame)
                pe == Pe(h["phi"], phi_units)
                raw == TeRaw(ke, pe)
                h1 == SetArray(SetArray(h, "phi", ConvertUnits(h["phi"], phi_units)), "te", raw)
                tm == TeMax(h1["te"])
            IN  /\ te_max' = tm
                /\ te' = [p \in P |-> raw[p] - tm]
                /\ h' = SetArray(h1, "te", TeStored(h1["te"], tm))
                /\ phi_units' = UnitAfterConvert(phi_units)
                /\ pc' = "profile"
                /\ UNCHANGED err
    /\ UNCHANGED <<sim, frame, args, pro_d, root, j_crit, E_cut, warnings, entry, memo, est>>

\* lines 133-140
ProfileStep ==
    /\ pc = "profile"
    /\ IF NBins(args.particles_per_bin) = 0
       THEN /\ err' = "ProfileError"
            /\ pc' = "exit"
            /\ UNCHANGED pro_d
       ELSE /\ pro_d' = ShiftProfile(ProfileOf(sim.shape, NBins(args.particles_per_bin)), te_max)
            /\ pc' = "jcirc"
            /\ UNCHANGED err
    /\ UNCHANGED <<sim, h, phi_units, frame, args, te, te_max, root, j_crit, E_cut,
                   warnings, entry, memo, est>>

\* the array h['j_circ'] of lines 145-168
JCirc(pro, tes, a) ==
    IF a.j_circ_from_r THEN MapBack(pro.j_circ, sim)
    ELSE ClampLow(ClampHigh(JFromE(pro, tes, a.log_interp), pro, tes), pro, tes)

\* lines 145-170
CircRefStep ==
    /\ pc = "jcirc"
    /\ LET jc == JCirc(pro_d, h["te"], args)
           h1 == SetArray(h, "j_circ", jc)
           h2 == IF args.j_circ_from_r THEN SetArray(h1, "E_circ", MapBack(ECirc(pro_d), sim))
                 ELSE h1
       IN  h' = SetArray(h2, "jz_by_jzcirc", JzByJzcirc(JzArray(sim, frame), jc))
    /\ pc' = "disk"
    /\ UNCHANGED <<sim, phi_units, frame, args, te, te_max, pro_d, root, j_crit, E_cut,
                   warnings, err, entry, memo, est>>

\* lines 171-178
DiskStep ==
    /\ pc = "disk"
    /\ LET h1 == IF "decomp" \in DOMAIN h THEN h ELSE SetArray(h, "decomp", NewDecomp)
       IN  h' = SetArray(h1, "decomp",
                   Assign(h1["decomp"],
                          Disk(h1["jz_by_jzcirc"], args.j_disk_min, args.j_disk_max), 1))
    /\ pc' = "bisect"
    /\ UNCHANGED <<sim, phi_units, frame, args, te, te_max, pro_d, root, j_crit, E_cut,
                   warnings, err, entry, memo, est>>

\* lines 184-198.  util.bisect is a function of the arrays it is given: called
\* again on the arrays of its last evaluation it returns the same root.
BisectStep ==
    /\ pc = "bisect"
    /\ LET ratio == [s \in Stars |-> h["jz_by_jzcirc"][s]]
           V == [s \in Stars |-> VcxyArray(sim, frame)[s]]
       IN  /\ root' \in (IF memo.set /\ memo.ratio = ratio /\ memo.V = V
                         THEN {memo.root} ELSE BisectRoots)
           /\ memo' = [set |-> TRUE, ratio |-> ratio, V |-> V, root |-> root']
    /\ j_crit' = ClampJCrit(root', args.j_disk_min)
    /\ warnings' = IF Gt(root', args.j_disk_min)
                   THEN <<"j_crit exceeds j_disk_min", "j_crit will be reset to j_disk_min">>
                   ELSE <<>>
    /\ te' = [p \in P |-> h["te"][p]]
    /\ pc' = "classify"
    /\ UNCHANGED <<sim, h, phi_units, frame, args, te_max, pro_d, E_cut, err, entry, est>>

\* lines 200-217
ClassifyStep ==
    /\ pc = "classify"
    /\ E_cut' = ECut(args.E_cut, h["te"])
    /\ h' = SetArray(h, "decomp",
                SecondPass(h["decomp"], te, h["jz_by_jzcirc"], E_cut', j_crit,
                           args.j_disk_min, args.j_disk_max))
    /\ pc' = "exit"
    /\ UNCHANGED <<sim, phi_units, frame, args, te, te_max, pro_d, root, j_crit,
                   warnings, err, entry, memo, est>>

\* with tx: the block is left through tx.__exit__, by return or by exception e
UnwindOnReturnOnly(fr, aligned, e) == IF e = "none" THEN Leave(fr, aligned) ELSE fr
Unwind(fr, aligned, e) == Leave(fr, aligned)

\* leaving the with block, by return (line 220) or by the exception
ExitStep ==
    /\ pc = "exit"
    /\ frame' = Unwind(frame, args.aligned, err)
    /\ pc' = IF err = "none" THEN "done" ELSE "raised"
    /\ UNCHANGED <<sim, h, phi_units, args, te, te_max, pro_d, root, j_crit, E_cut,
                   warnings, err, entry, memo, est>>

(***************************************************************************)
(* estimate_jcirc_from_energy, lines 15-42.                                *)
(***************************************************************************)
\* nbins = len(h) // particles_per_bin
NBinsAll(particles_per_bin) == NP \div particles_per_bin

\* the particles in ascending order of x, equal x in the order of the snapshot
RECURSIVE SortBy(_, _)
SortBy(S, x) ==
    IF S = {} THEN <<>>
    ELSE LET m == CHOOSE p \in S : \A q \in S : x[p] < x[q] \/ (x[p] = x[q] /\ p <= q)
         IN  <<m>> \o SortBy(S \ {m}, x)

\* profile.QuantileProfile(h, q=(quantile,), nbins=nbins, type='equaln',
\* calc_x=te): nbins bins of equally many particles in ascending te; the
\* quantile of j2 in a bin of one particle is the j2 of the particle
QuantileProfileOf(x, j2, nbins) ==
    LET srt == SortBy(P, x)
        per == NP \div nbins
        bin == [b \in 1 .. nbins |->
                   {srt[i] : i \in ((b - 1) * per + 1) .. (IF b = nbins THEN NP ELSE b * per)}]
    IN  [bin |-> bin,
         j2  |-> [b \in 1 .. nbins |-> j2[CHOOSE p \in bin[b] : \A q \in bin[b] : j2[q] <= j2[p]]]]

\* pro_d.create_particle_array("j2", particle_name='jcirc2', target_simulation=h)
MapBackByBin(pro) == [p \in P |-> pro.j2[CHOOSE b \in DOMAIN pro.bin : p \in pro.bin[b]]]

\* np.sqrt on the squares the model draws
RECURSIVE SqrtFrom(_, _)
SqrtFrom(n, r) == IF r * r >= n THEN r ELSE SqrtFrom(n, r + 1)
Sqrt(n) == SqrtFrom(n, 0)

\* sim['te'] can be computed: the array decomp stored, or on a snapshot that
\* stores none the array the snapshot derives as ke + phi, which needs phi in a
\* unit that converts to the unit of ke
TeReadable(hh, u) == "te" \in DOMAIN hh \/ u # "bad"

\* sim['te'] as calc_x of line 37 reads it: the stored array, or the derived
\* ke + phi in the unit of ke (fr is the frame of the snapshot)
TeOf(s, hh, u, fr) ==
    IF "te" \in DOMAIN hh THEN hh["te"]
    ELSE [p \in P |-> KeArray(s, fr)[p] + ConvertUnits(hh["phi"], u)[p]]

\* estimate_jcirc_from_energy(h, particles_per_bin): lines 35-42.  The code
\* tests nothing; the profile raises when sim['te'] cannot be computed or when
\* nbins is 0.
EstimateJcirc(ppb) ==
    /\ pc \in {"idle", "done", "raised"}
    /\ IF ~TeReadable(h, phi_units)
       THEN /\ est' = "UnitsException"
            /\ UNCHANGED h
       ELSE IF NBinsAll(ppb) = 0
       THEN /\ est' = "ProfileError"
            /\ UNCHANGED h
       ELSE LET pro == QuantileProfileOf(TeOf(sim, h, phi_units, frame),
                                        [p \in P |-> sim.part[p].j2],
                                        NBinsAll(ppb))
                jcirc2 == MapBackByBin(pro)
            IN  /\ h' = SetArray(SetArray(h, "jcirc2", jcirc2),
                                 "jcirc", [p \in P |-> Sqrt(jcirc2[p])])
                /\ est' = "returned"
    /\ UNCHANGED <<sim, phi_units, frame, pc, args, te, te_max, pro_d, root, j_crit, E_cut,
                   warnings, err, entry, memo>>

Next ==
    \/ \E a \in Args : Call(a)
    \/ \E ppb \in ParticlesPerBin : EstimateJcirc(ppb)
    \/ EnergyStep
    \/ ProfileStep
    \/ CircRefStep
    \/ DiskStep
    \/ BisectStep
    \/ ClassifyStep
    \/ ExitStep

Spec == Init /\ [][Next]_vars

(***************************************************************************)
(* Properties.                                                             *)
(***************************************************************************)
Done == pc = "done"
\* decomp has returned or raised, and nothing was called since
Returned == pc \in {"done", "raised"} /\ est = "none"
\* the snapshot held no decomp array when the call was made
FreshCall == "decomp" \notin DOMAIN entry.h
StarTe(s) == h["te"][s]
StarRatio(s) == h["jz_by_jzcirc"][s]
InBand(r) == Gt(r, args.j_disk_min) /\ Lt(r, args.j_disk_max)
OutOfBand(r) == Lt(r, args.j_disk_min) \/ Gt(r, args.j_disk_max)
\* the frame inside the with block of the current call
BlockFrame == Enter(entry.frame, args.aligned)

\* C1: after a call on a snapshot without an earlier decomp array, every star
\* carries the label the classification table gives for its te and ratio, the
\* E_cut and the final j_crit of the call, stars with ratio = j_crit included.
C1_LabelsFollowTable ==
    LET \* the label the table of the claim gives a star of energy e and ratio r
        \* (0: no row of the table applies)
        TableLabel(e, r) ==
            CASE InBand(r) -> 1
              [] Gt(Int2V(e), E_cut) /\ Lt(r, j_crit) -> 2
              [] Le(Int2V(e), E_cut) /\ Lt(r, j_crit) -> 3
              [] Le(Int2V(e), E_cut) /\ Le(j_crit, r) /\ OutOfBand(r) -> 5
              [] Gt(Int2V(e), E_cut) /\ Le(j_crit, r) /\ OutOfBand(r) -> 4
              [] OTHER -> 0
    IN  (Done /\ FreshCall) =>
            \A s \in Stars : h["decomp"][s] = TableLabel(StarTe(s), StarRatio(s))

\* the five index sets of the call
DiskSet == Disk(h["jz_by_jzcirc"], args.j_disk_min, args.j_disk_max)
HaloSet == Halo(h["te"], h["jz_by_jzcirc"], E_cut, j_crit)
BulgeSet == Bulge(h["te"], h["jz_by_jzcirc"], E_cut, j_crit)
ThickSet == Thick(h["te"], h["jz_by_jzcirc"], E_cut, j_crit, args.j_disk_min, args.j_disk_max)
PbulgeSet == Pbulge(h["te"], h["jz_by_jzcirc"], E_cut, j_crit, args.j_disk_min, args.j_disk_max)
FiveSets == <<DiskSet, HaloSet, BulgeSet, ThickSet, PbulgeSet>>

\* C2: after a call every star has exactly one label in 1..5: the five index
\* sets are pairwise disjoint, their union is the set of all stars, and no star
\* is left at the default 0.
C2_ExactlyOneLabel ==
    (Done /\ FreshCall) =>
        /\ \A i, j \in 1 .. 5 : i # j => FiveSets[i] \cap FiveSets[j] = {}
        /\ DiskSet \cup HaloSet \cup BulgeSet \cup ThickSet \cup PbulgeSet = Stars
        /\ \A s \in Stars : h["decomp"][s] \in 1 .. 5

\* C3: a star the first pass puts in the thin disk has label 1 when decomp
\* returns: no assignment of the second pass selects a star inside the disk band.
C3_DiskNeverRelabelled ==
    Done => \A s \in Stars : InBand(StarRatio(s)) => h["decomp"][s] = 1

\* a call returned with a star in the disk band although the bisection returned
\* a root above j_disk_min
C3_Witness ==
    /\ Done
    /\ Gt(root, args.j_disk_min)
    /\ \E s \in Stars : InBand(StarRatio(s)) /\ h["decomp"][s] = 1

\* C4: j_crit never exceeds j_disk_min.  A root of the bisection above
\* j_disk_min is replaced by j_disk_min, with a warning, and the call goes on
\* without raising; a root <= j_disk_min is kept and nothing is warned.
C4_JCritClamped ==
    /\ pc \in {"classify", "exit", "done"} /\ err = "none" =>
          /\ Le(j_crit, args.j_disk_min)
          /\ Gt(root, args.j_disk_min) => j_crit = args.j_disk_min /\ Len(warnings) > 0
          /\ Le(root, args.j_disk_min) => j_crit = root /\ warnings = <<>>
    /\ root.k # "nan" => err = "none" /\ pc # "raised"

\* a call that clamped j_crit has returned
C4_Witness ==
    Done /\ Gt(root, args.j_disk_min) /\ j_crit = args.j_disk_min /\ Len(warnings) > 0

\* the states in which h['j_circ'] is the array of the current call
HasJCirc == pc \in {"disk", "bisect", "classify"} \/ (pc \in {"exit", "done"} /\ err = "none")

\* C5: in by-energy mode (linear and log-interpolated), after the
\* circular-reference step every particle with te above the largest circular
\* energy of the profile has j_circ = +inf, and every particle with te below
\* the smallest has the j_circ of the first bin of the profile; in by-radius
\* mode neither clamp is applied: every particle has the j_circ of its bin.
C5_EdgeClamps ==
    HasJCirc =>
        \A p \in P :
            IF args.j_circ_from_r
            THEN h["j_circ"][p] = pro_d.j_circ[sim.part[p].rbin]
            ELSE /\ h["te"][p] > SeqMax(ECirc(pro_d)) => h["j_circ"][p] = PosInf
                 /\ h["te"][p] < SeqMin(ECirc(pro_d)) => h["j_circ"][p] = pro_d.j_circ[1]

\* log-interpolated by-energy mode on a profile whose lowest energy is not in its
\* first bin, with a particle above and a star below the range of the profile
C5_Witness ==
    /\ pc = "disk"
    /\ ~args.j_circ_from_r /\ args.log_interp
    /\ sim.shape = "dip"
    /\ h["te"][NP] > SeqMax(ECirc(pro_d)) /\ h["j_circ"][NP] = PosInf
    /\ \E s \in Stars : h["te"][s] < SeqMin(ECirc(pro_d)) /\ h["j_circ"][s] = pro_d.j_circ[1]

\* the arrays a call of decomp attaches: te (line 116), j_circ (146, 153, 158),
\* E_circ in by-radius mode (147), jz_by_jzcirc (170) and decomp (174)
Attached ==
    {"te", "j_circ", "jz_by_jzcirc", "decomp"}
        \cup (IF args.j_circ_from_r THEN {"E_circ"} ELSE {})
\* the array named n is as it was when the call was made
Untouched(n) == n \in DOMAIN entry.h /\ h[n] = entry.h[n]
\* h['phi'] holds the potential it held when the call was made, whatever its unit
SamePotential ==
    \A p \in P : h["phi"][p] * UnitsPerKe(entry.phi_units)
                    = entry.h["phi"][p] * UnitsPerKe(phi_units)

\* C6 as stated: the frame is the same after decomp as before it on every exit
\* path, and the only state decomp leaves changed is the arrays te, j_circ,
\* jz_by_jzcirc and decomp.
C6_OnlyAttachedFieldsChange ==
    LET \* the arrays the claim says decomp attaches
        Claimed == {"te", "j_circ", "jz_by_jzcirc", "decomp"}
    IN  Returned =>
            /\ frame = entry.frame
            /\ phi_units = entry.phi_units
            /\ \A n \in DOMAIN h \ Claimed : Untouched(n)

\* C6, amended: the frame is the same after decomp as before it on every exit
\* path (reverted when aligned is False, never altered when aligned is True);
\* what decomp leaves changed is the arrays te, j_circ, jz_by_jzcirc and decomp,
\* the array E_circ in by-radius mode, and the unit phi is stored in, converted
\* in place to the unit of ke with the potential itself unchanged.
C6_FrameRestored ==
    /\ Returned =>
          /\ frame = entry.frame
          /\ \A n \in DOMAIN h \ Attached :
                \/ Untouched(n)
                \/ n = "phi" /\ phi_units = "ke" /\ SamePotential
    /\ (pc # "idle" /\ args.aligned) => frame = entry.frame
    /\ (pc \notin {"idle", "done", "raised"} /\ ~args.aligned) => FaceOn(frame)

\* a call with aligned False has left by an exception raised by the profile,
\* after te was attached
C6_Witness ==
    /\ pc = "raised" /\ err = "ProfileError"
    /\ ~args.aligned
    /\ frame = <<>>
    /\ "te" \in DOMAIN h

\* C7: a second call in a row with identical arguments recomputes the same te,
\* j_circ, ratio, j_crit and E_cut and leaves every star's label as the first
\* call left it: at every step of the second call the arrays te, j_circ and
\* jz_by_jzcirc are those of the first call, once set j_crit is the j_crit of
\* the first call, and at the return E_cut and the labels are those of the first.
C7_Idempotent ==
    (entry.pc = "done" /\ entry.args = args) =>
        /\ h["te"] = entry.h["te"]
        /\ h["j_circ"] = entry.h["j_circ"]
        /\ h["jz_by_jzcirc"] = entry.h["jz_by_jzcirc"]
        /\ pc \in {"classify", "exit", "done"} => j_crit = entry.j_crit
        /\ Done => E_cut = entry.E_cut /\ h["decomp"] = entry.h["decomp"]

\* the second of two calls in a row with the same arguments, aligned given, has
\* returned on a snapshot whose stars the first call labelled
C7_Witness ==
    /\ Done /\ entry.pc = "done" /\ entry.args = args
    /\ args.aligned
    /\ \A s \in Stars : h["decomp"][s] \in 1 .. 5
    /\ \E s, t \in Stars : h["decomp"][s] # h["decomp"][t]

\* the states in which h['te'] is the array of the current call
HasTe ==
    \/ pc \in {"profile", "jcirc", "disk", "bisect", "classify"}
    \/ pc \in {"exit", "done", "raised"} /\ err # "UnitsException"

\* kinetic plus potential energy of particle p in the frame of the with block
Total(p) == KeArray(sim, BlockFrame)[p] + sim.part[p].phi

\* C8: after the energy step the stored te of every particle, star or not, is
\* its kinetic plus potential energy minus te_max, the largest kinetic plus
\* potential energy among the stars: the offset is applied once, every star has
\* te <= 0 and the largest te among the stars is 0.
C8_EnergyShiftOnce ==
    HasTe =>
        /\ \A s \in Stars : Total(s) <= te_max
        /\ \E s \in Stars : Total(s) = te_max
        /\ \A p \in P : h["te"][p] = Total(p) - te_max
        /\ \A s \in Stars : h["te"][s] <= 0
        /\ \E s \in Stars : h["te"][s] = 0

\* the energy step has run with a nonzero offset on a snapshot whose other
\* particle is less bound than every star
C8_Witness ==
    /\ pc = "profile"
    /\ te_max # 0
    /\ h["te"][NP] > 0
    /\ \E s \in Stars : h["te"][s] < 0

\* C9: in by-energy mode a star with te above the largest circular energy of
\* the profile ends the call with a label in 2..5, for every
\* j_disk_min < j_disk_max, every E_cut and every root of the bisection.
C9_UnboundStarLabelled ==
    (Done /\ ~args.j_circ_from_r /\ Lt(args.j_disk_min, args.j_disk_max)) =>
        \A s \in Stars :
            h["te"][s] > SeqMax(ECirc(pro_d)) => h["decomp"][s] \in 2 .. 5

\* the labels a call with the arguments and the collaborators' results of the
\* current call writes on a snapshot without a decomp array
LabelsOfFreshCall ==
    SecondPass(Assign(NewDecomp, DiskSet, 1), h["te"], h["jz_by_jzcirc"], E_cut, j_crit,
               args.j_disk_min, args.j_disk_max)

\* C10: after any sequence of calls every star's label is the one a single
\* call with the arguments of the last call writes on a snapshot without an
\* earlier decomp array: no star keeps a label of an earlier call.
C10_NoStaleLabel ==
    Done => h["decomp"] = LabelsOfFreshCall

====
